---- MODULE Spec2Model ----
(***************************************************************************)
(* A model of the CardDAV address-book client NCAddressBook                *)
(* (src/akadressen/_ncaddressbook.py) and of the synchronisation script    *)
(* main() (src/main.py) that drives it.                                    *)
(*                                                                         *)
(* Seven specifications share the variables:                               *)
(*   SpecListing  refresh_contacts applied to crafted PROPFIND responses;  *)
(*   SpecClient   single calls of refresh_contacts, get_vcard_bytes and    *)
(*                upload_vcard against a server that other clients may     *)
(*                change;                                                  *)
(*   Spec         one run of main(): the asyncio tasks of                  *)
(*                download_all_contacts and upload_all_vcards interleave;  *)
(*   SpecPool     the requests of one batch and the connection pool of     *)
(*                the httpx client;                                        *)
(*   SpecPhotos   the Telegram and WhatsApp photo enrichment of the        *)
(*                parsed vCards;                                           *)
(*   SpecRows     _row_to_card applied to the rows of the merged table;    *)
(*   SpecMerge    merge_vcards, whose module is not among the sources,     *)
(*                after the MergeEngine contract of the specification.     *)
(*                                                                         *)
(* Encoding of Python values: a version tag (ETag) is a string; the empty  *)
(* string is the empty string and the string "None" stands for Python's    *)
(* None.  The dict self._uids is a function whose DOMAIN is its key set.   *)
(***************************************************************************)
EXTENDS Integers, Sequences, FiniteSets, TLC

VARIABLES
    uids,       \* NCAddressBook._uids : identity -> version tag
    last,       \* the last completed call of the client API and its outcome
    server,     \* the remote collection: identity -> version (0: no resource)
    pc,         \* position of main()
    tasks,      \* the asyncio tasks of the running gather()
    files,      \* GENERATED_VCARDS_PATH: file name -> the vCard in the file
    puts,       \* every PUT request issued so far
    known,      \* identity -> tag of the remote state last listed, fetched or written
    names,      \* the collection's contacts: identity -> the N property of the vCard
    limits,     \* the httpx.Limits the client was constructed with
    vcards,     \* aka_vcards: the vCards parsed from the AkaDressen
    existing,   \* the contact set merge_vcards finds in the directory
    merged,     \* the contact set merge_vcards leaves in the directory
    photo_map,  \* per platform: the phone numbers with a profile photo
    merged_table \* the rows get_akadressen_vcards turns into vCards

\* The variables the client and main() do not change after construction or
\* that belong to the enrichment and merge steps.
aux == <<names, limits, vcards, existing, merged, photo_map, merged_table>>

vars == <<uids, last, server, pc, tasks, files, puts, known, aux>>

(***************************************************************************)
(* Bounds of the model.                                                    *)
(***************************************************************************)
MaxEntries == 2     \* entries of a crafted listing response
MaxVer == 2         \* versions a resource of the server goes through
MaxTasks == 6       \* identities of one batch in SpecPool
MaxIncoming == 2    \* records of the incoming batch in SpecMerge
MaxRows == 2        \* rows of the merged table in SpecRows

(***************************************************************************)
(* Values.                                                                 *)
(***************************************************************************)
None == "None"

EmptyMap == [u \in {} |-> ""]

NoCall == [op |-> "none"]

\* dict.__setitem__
Put(m, k, v) == [x \in DOMAIN m \cup {k} |-> IF x = k THEN v ELSE m[x]]

\* dict.get(k): None when the key is missing
Get(m, k) == IF k \in DOMAIN m THEN m[k] ELSE None

\* Python truthiness of an Optional[str]
Truthy(s) == s # None /\ s # ""

\* The version tag the server attaches to version n of a resource.
ETag(n) == ToString(n)

(***************************************************************************)
(* check_response_status                                                   *)
(***************************************************************************)
StatusOk(status) == 200 <= status /\ status <= 299

(***************************************************************************)
(* refresh_contacts: the parse of a PROPFIND response.                     *)
(*                                                                         *)
(* A response is [status, wellFormed, entries]; an entry (a DAV:response   *)
(* element) is [hasHref, href, ctype, etag] where href, the text of its    *)
(* DAV:href, is [segs, stem, ext] and stands for the segments joined by    *)
(* "/" followed by "/" stem ext (no "/" at all when segs is empty); ctype  *)
(* and etag are the texts of getcontenttype and getetag, "" when the       *)
(* element is missing or empty.                                            *)
(***************************************************************************)
AcceptedContentTypes ==
    { "text/vcard", "text/vcard; charset=utf-8",
      "text/x-vcard", "text/x-vcard; charset=utf-8" }

HrefText(segs, stem, ext) == [segs |-> segs, stem |-> stem, ext |-> ext]

NoText == HrefText(<<>>, "", "")

\* refprop.text.rsplit("/", 1)[-1].removesuffix(".vcf")
UidOfHref(text) == IF text.ext = ".vcf" THEN text.stem ELSE text.stem \o text.ext

\* `if clear or self._uids is None: self._uids = {}`
ClearedNever(clear, m) == m

Cleared(clear, m) == IF clear THEN EmptyMap ELSE m

\* `if not refprop.text: raise RuntimeError(...)`
HrefRaisesNever(entry) == FALSE

HrefRaises(entry) == entry.hasHref /\ entry.href = NoText

\* One DAV:response element: the loop body of lines 109-133.
ParseEntry(acc, entry) ==
    IF acc.err THEN acc
    ELSE IF HrefRaises(entry) THEN [acc EXCEPT !.err = TRUE]
    ELSE LET uid == IF entry.hasHref THEN UidOfHref(entry.href) ELSE ""
             insert == entry.ctype \in AcceptedContentTypes
         IN  IF insert /\ uid # ""
             THEN [acc EXCEPT !.map = Put(acc.map, uid, entry.etag)]
             ELSE acc

RECURSIVE ParseEntries(_, _)
ParseEntries(acc, entries) ==
    IF entries = <<>> THEN acc
    ELSE ParseEntries(ParseEntry(acc, Head(entries)), Tail(entries))

\* The outcome of refresh_contacts(clear) on response resp with map m:
\* the map it leaves and what it returns or raises.
RefreshOutcome(m, clear, resp) ==
    IF ~StatusOk(resp.status)
    THEN [map |-> m, result |-> "HTTPError", returned |-> {}]
    ELSE LET start == Cleared(clear, m)
         IN  IF ~resp.wellFormed
             THEN [map |-> start, result |-> "ParseError", returned |-> {}]
             ELSE LET p == ParseEntries([map |-> start, err |-> FALSE], resp.entries)
                  IN  IF p.err \/ DOMAIN p.map = {}
                      THEN [map |-> p.map, result |-> "RuntimeError", returned |-> {}]
                      ELSE [map |-> p.map, result |-> "ok", returned |-> DOMAIN p.map]

RefreshContacts(clear, resp) ==
    LET o == RefreshOutcome(uids, clear, resp)
    IN  /\ uids' = o.map
        /\ last' = [op |-> "refresh", clear |-> clear, resp |-> resp, prev |-> uids,
                    result |-> o.result, returned |-> o.returned]

(***************************************************************************)
(* SpecListing: refresh_contacts on crafted responses.                     *)
(***************************************************************************)
Card(stem, ext) == HrefText(<<"dav", "book">>, stem, ext)

Entry(hasHref, href, ctype, etag) ==
    [hasHref |-> hasHref, href |-> href, ctype |-> ctype, etag |-> etag]

EntryPool ==
    { Entry(TRUE, Card(s, ".vcf"), c, e) :
        s \in {"u1", "u2"}, c \in {"text/vcard; charset=utf-8", "text/calendar"},
        e \in {ETag(1), ETag(2)} }
    \cup
    { Entry(TRUE, Card("u1", ".vcf"), "text/vcard", ""),
      Entry(TRUE, Card("u2", ""), "text/x-vcard", ETag(1)),
      Entry(TRUE, Card("", ""), "", ""),
      Entry(TRUE, Card("", ""), "text/vcard", ETag(1)),
      Entry(FALSE, NoText, "text/vcard", ETag(1)),
      Entry(TRUE, NoText, "text/vcard", ETag(1)) }

RECURSIVE SeqsUpTo(_, _)
SeqsUpTo(S, n) ==
    IF n = 0 THEN {<<>>}
    ELSE LET shorter == SeqsUpTo(S, n - 1)
         IN  shorter \cup { Append(s, x) : s \in shorter, x \in S }

Response(status, wellFormed, entries) ==
    [status |-> status, wellFormed |-> wellFormed, entries |-> entries]

CraftedResponses ==
    { Response(207, TRUE, es) : es \in SeqsUpTo(EntryPool, MaxEntries) }
    \cup { Response(207, FALSE, <<>>), Response(404, TRUE, <<>>),
           Response(500, TRUE, <<>>) }

\* httpx.Limits(max_connections=n); Limits() sets no bound (max_connections=None)
Limits(bounded, max_connections) ==
    [bounded |-> bounded, max_connections |-> max_connections]

NoLimits == Limits(FALSE, 0)

\* Nothing parsed, nothing merged yet.
InitAux ==
    /\ vcards = EmptyMap
    /\ existing = EmptyMap
    /\ merged = EmptyMap
    /\ photo_map = EmptyMap
    /\ merged_table = <<>>

InitClient ==
    /\ InitAux
    /\ names = EmptyMap
    /\ limits = NoLimits
    /\ uids = EmptyMap
    /\ last = NoCall
    /\ pc = "idle"
    /\ tasks = EmptyMap
    /\ files = EmptyMap
    /\ puts = {}
    /\ known = EmptyMap

InitListing ==
    /\ InitClient
    /\ server = [u \in {"u1", "u2"} |-> 0]

CallRefresh ==
    /\ last = NoCall
    /\ \E clear \in BOOLEAN, resp \in CraftedResponses : RefreshContacts(clear, resp)
    /\ UNCHANGED <<aux, server, pc, tasks, files, puts, known>>

\* The caller takes the result; the client is idle again.
ReturnToCaller ==
    /\ last # NoCall
    /\ last' = NoCall
    /\ UNCHANGED <<aux, uids, server, pc, tasks, files, puts, known>>

NextListing == CallRefresh \/ ReturnToCaller

SpecListing == InitListing /\ [][NextListing]_vars

(***************************************************************************)
(* The remote collection, as the client sees it.                           *)
(***************************************************************************)
OrderedUIDs == <<"u1", "u2">>

UIDs == { OrderedUIDs[i] : i \in 1..Len(OrderedUIDs) }

RECURSIVE ListingOf(_, _)
ListingOf(srv, us) ==
    IF us = <<>> THEN <<>>
    ELSE ( IF srv[Head(us)] > 0
           THEN << Entry(TRUE, Card(Head(us), ".vcf"), "text/vcard; charset=utf-8",
                         ETag(srv[Head(us)])) >>
           ELSE <<>> )
         \o ListingOf(srv, Tail(us))

\* What a PROPFIND with Depth 1 can be answered with: the collection itself
\* and one entry per contact, or a server error.
PropfindResponses(srv) ==
    { Response(207, TRUE, << Entry(TRUE, Card("", ""), "", "") >> \o ListingOf(srv, OrderedUIDs)),
      Response(500, TRUE, <<>>) }

HttpResponse(status, etag, version) ==
    [status |-> status, etag |-> etag, version |-> version]

\* What GET {uid}.vcf can be answered with.  etag is the value of
\* response.headers.get("oc-etag"): None when the header is not sent.
GetResponses(srv, uid) ==
    { HttpResponse(500, None, srv[uid]) }
    \cup ( IF srv[uid] = 0
           THEN { HttpResponse(404, None, 0) }
           ELSE { HttpResponse(200, e, srv[uid]) : e \in {ETag(srv[uid]), None} } )

\* What PUT {uid}.vcf with the given If-Match header (None: no header) can be
\* answered with; version is the version of the resource afterwards.
PutResponses(srv, uid, ifMatch) ==
    { HttpResponse(500, None, srv[uid]) }
    \cup ( IF ifMatch # None /\ (srv[uid] = 0 \/ ifMatch # ETag(srv[uid]))
           THEN { HttpResponse(412, None, srv[uid]) }
           ELSE IF srv[uid] < MaxVer
           THEN { HttpResponse(IF srv[uid] = 0 THEN 201 ELSE 204, e, srv[uid] + 1) :
                    e \in {ETag(srv[uid] + 1), None} }
           ELSE {} )

(***************************************************************************)
(* get_vcard_bytes                                                         *)
(***************************************************************************)
\* (a variant that stores the tag under every key)
StoredAfterGetCrossed(m, uid, etag) == [x \in DOMAIN m \cup {uid} |-> etag]

\* `etag = response.headers.get("oc-etag"); self._uids[uid] = etag`
StoredAfterGet(m, uid, etag) == Put(m, uid, etag)

GetOutcome(m, uid, resp) ==
    IF ~StatusOk(resp.status)
    THEN [map |-> m, result |-> "HTTPError"]
    ELSE [map |-> StoredAfterGet(m, uid, resp.etag), result |-> "ok"]

(***************************************************************************)
(* upload_vcard                                                            *)
(***************************************************************************)
VCard(hasUid, uid) == [hasUid |-> hasUid, uid |-> uid]

\* `if etag: headers["If-Match"] = etag`; None: the header is not set
IfMatchOnlyWhenChecking(etag, check_override) ==
    IF Truthy(etag) /\ check_override THEN etag ELSE None

IfMatchHeader(etag, check_override) == IF Truthy(etag) THEN etag ELSE None

\* `elif check_override: raise RuntimeError(...)`
RefusesNever(etag, check_override) == FALSE

Refuses(etag, check_override) == ~Truthy(etag) /\ check_override

\* Lines 220-233: what upload_vcard does before it sends anything.
UploadRequest(m, vcard, check_override) ==
    IF ~vcard.hasUid
    THEN [result |-> "ValueError", sent |-> FALSE, uid |-> "", ifMatch |-> None]
    ELSE LET etag == Get(m, vcard.uid)
         IN  IF Refuses(etag, check_override)
             THEN [result |-> "RuntimeError", sent |-> FALSE, uid |-> vcard.uid,
                   ifMatch |-> None]
             ELSE [result |-> "send", sent |-> TRUE, uid |-> vcard.uid,
                   ifMatch |-> IfMatchHeader(etag, check_override)]

\* `if etag := response.headers.get("oc-etag"): self._uids[uid] = etag`
StoredAfterPut(m, uid, etag) == IF Truthy(etag) THEN Put(m, uid, etag) ELSE m

\* (a variant that forgets the tag of a contact whose write failed)
PutOutcomeForgetting(m, uid, resp) ==
    IF ~StatusOk(resp.status)
    THEN [map |-> Put(m, uid, ""), result |-> "HTTPError"]
    ELSE [map |-> StoredAfterPut(m, uid, resp.etag), result |-> "ok"]

\* Lines 240-243: what upload_vcard does with the response.
PutOutcome(m, uid, resp) ==
    IF ~StatusOk(resp.status)
    THEN [map |-> m, result |-> "HTTPError"]
    ELSE [map |-> StoredAfterPut(m, uid, resp.etag), result |-> "ok"]

(***************************************************************************)
(* SpecClient: single calls of the client against the remote collection.   *)
(* known[u] is the tag the server gave to the state of u that the client   *)
(* last listed, fetched or wrote successfully   (a history variable).        *)
(***************************************************************************)
InitSpecClient ==
    /\ InitClient
    /\ server \in [UIDs -> 0..1]

Remember(k, srv, ids) ==
    [u \in DOMAIN k \cup ids |-> IF u \in ids THEN ETag(srv[u]) ELSE k[u]]

CallRefreshContacts ==
    /\ \E clear \in BOOLEAN, resp \in PropfindResponses(server) :
          /\ RefreshContacts(clear, resp)
          /\ known' = IF StatusOk(resp.status) /\ resp.wellFormed
                      THEN Remember(known, server, { u \in UIDs : server[u] > 0 })
                      ELSE known
    /\ UNCHANGED <<aux, server, pc, tasks, files, puts>>

CallGetVcardBytes ==
    /\ \E uid \in UIDs : \E resp \in GetResponses(server, uid) :
          LET o == GetOutcome(uids, uid, resp)
          IN  /\ uids' = o.map
              /\ last' = [op |-> "get", uid |-> uid, resp |-> resp, prev |-> uids,
                          result |-> o.result]
              /\ known' = IF o.result = "ok" THEN Remember(known, server, {uid})
                          ELSE known
    /\ UNCHANGED <<aux, server, pc, tasks, files, puts>>

CallUploadVcard ==
    /\ \E vcard \in { VCard(TRUE, u) : u \in UIDs } \cup { VCard(FALSE, "") },
          check_override \in BOOLEAN :
          LET req == UploadRequest(uids, vcard, check_override)
              call(result, status) ==
                  [op |-> "upload", vcard |-> vcard,
                   check_override |-> check_override, prev |-> uids,
                   sent |-> req.sent, ifMatch |-> req.ifMatch,
                   result |-> result, status |-> status]
          IN  IF ~req.sent
              THEN /\ last' = call(req.result, 0)
                   /\ UNCHANGED <<aux, uids, server, known>>
              ELSE \E resp \in PutResponses(server, req.uid, req.ifMatch) :
                      LET o == PutOutcome(uids, req.uid, resp)
                      IN  /\ uids' = o.map
                          /\ server' = [server EXCEPT ![req.uid] = resp.version]
                          /\ known' = IF o.result = "ok"
                                      THEN Remember(known, server', {req.uid})
                                      ELSE known
                          /\ last' = call(o.result, resp.status)
    /\ UNCHANGED <<aux, pc, tasks, files, puts>>

\* Another client of the collection creates or changes a contact.
ExternalChange ==
    /\ \E uid \in UIDs :
          /\ server[uid] < MaxVer
          /\ server' = [server EXCEPT ![uid] = @ + 1]
    /\ UNCHANGED <<aux, uids, last, pc, tasks, files, puts, known>>

NextClient ==
    \/ CallRefreshContacts
    \/ CallGetVcardBytes
    \/ CallUploadVcard
    \/ ExternalChange

SpecClient == InitSpecClient /\ [][NextClient]_vars

(***************************************************************************)
(* The contacts of a run of main(): those of the collection and those the  *)
(* parsed AkaDressen rows add (a uid from uuid4, never seen by the server).*)
(* A name component is the sequence of its words.                          *)
(***************************************************************************)
FreshUIDs == {"n1"}

AllUIDs == UIDs \cup FreshUIDs

Name(family, given, prefix, suffix, additional) ==
    [family |-> family, given |-> given, prefix |-> prefix, suffix |-> suffix,
     additional |-> additional]

OwnName(uid) ==
    CASE uid = "u1" -> Name(<<"Doe">>, <<"Jane">>, <<>>, <<>>, <<>>)
      [] uid = "u2" -> Name(<<"van", "Roe">>, <<"Rick">>, <<"Dr.">>, <<>>, <<>>)
      [] OTHER -> Name(<<"Muster">>, <<"Max">>, <<>>, <<>>, <<>>)

\* vcard.n.value of the contact with this uid
NameOf(uid) == names[uid]

\* str.replace(" ", "+") of the words joined by blanks
RECURSIVE Plus(_)
Plus(words) ==
    IF words = <<>> THEN ""
    ELSE IF Len(words) = 1 THEN words[1]
    ELSE words[1] \o "+" \o Plus(Tail(words))

\* vcard_name_to_filename
FileName(name) ==
    LET prefix == IF name.prefix # <<>> THEN Plus(name.prefix) \o "+" ELSE ""
        additional == IF name.additional # <<>> THEN "+" \o Plus(name.additional) ELSE ""
        family == IF name.suffix # <<>>
                  THEN Plus(name.family) \o "+" \o Plus(name.suffix)
                  ELSE Plus(name.family)
    IN  family \o "_" \o prefix \o Plus(name.given) \o additional \o ".vcf"

\* (a variant that leaves nothing but the written file in the directory)
WriteFileAlone(dir, uid) ==
    [f \in {FileName(NameOf(uid))} |-> VCard(TRUE, uid)]

\* effective_path.write_bytes(content): the file of that name now holds the
\* contact.
WriteFile(dir, uid) ==
    [f \in DOMAIN dir \cup {FileName(NameOf(uid))} |->
        IF f = FileName(NameOf(uid)) THEN VCard(TRUE, uid) ELSE dir[f]]

\* main.py line 81
MainCheckOverride == FALSE

(***************************************************************************)
(* Spec: one run of main().                                                *)
(*                                                                         *)
(* asyncio.gather is called without return_exceptions: it raises the first *)
(* exception of a task into main(), whose `async with` then closes the     *)
(* client and whose asyncio.run cancels the tasks still in flight.         *)
(***************************************************************************)
Task(state, uid, ifMatch, seen, overwrote) ==
    [state |-> state, uid |-> uid, ifMatch |-> ifMatch, seen |-> seen,
     overwrote |-> overwrote, etag |-> None]

InFlight == { t \in DOMAIN tasks : tasks[t].state = "inflight" }

Failed == { t \in DOMAIN tasks : tasks[t].state = "failed" }

Succeeded == { t \in DOMAIN tasks : tasks[t].state = "done" }

Cancelled ==
    [t \in DOMAIN tasks |->
        IF tasks[t].state = "inflight" THEN [tasks[t] EXCEPT !.state = "cancelled"]
        ELSE tasks[t]]

\* main.py line 33
MainMaxConnections == 5

\* Every contact has its own name, or u2 is a namesake of u1.
NameChoices ==
    { [u \in AllUIDs |-> OwnName(u)],
      [u \in AllUIDs |-> IF u = "u2" THEN OwnName("u1") ELSE OwnName(u)] }

Init ==
    /\ InitAux
    /\ names \in NameChoices
    /\ limits = Limits(TRUE, MainMaxConnections)
    /\ uids = EmptyMap
    /\ last = NoCall
    /\ server \in { srv \in [AllUIDs -> 0..1] : \A u \in FreshUIDs : srv[u] = 0 }
    /\ pc = "start"
    /\ tasks = EmptyMap
    /\ files = EmptyMap
    /\ puts = {}
    /\ known = EmptyMap

\* __aenter__ -> initialize -> refresh_contacts()
Initialize ==
    /\ pc = "start"
    /\ \E resp \in PropfindResponses(server) :
          /\ RefreshContacts(TRUE, resp)
          /\ pc' = IF RefreshOutcome(uids, TRUE, resp).result = "ok"
                   THEN "listed" ELSE "aborted"
          /\ known' = IF StatusOk(resp.status) /\ resp.wellFormed
                      THEN Remember(known, server, { u \in UIDs : server[u] > 0 })
                      ELSE known
    /\ UNCHANGED <<aux, server, tasks, files, puts>>

\* download_all_contacts up to the await of gather: one task per uid, each
\* with its GET sent.
StartDownloadAll ==
    /\ pc = "listed"
    /\ IF DOMAIN uids = {}
       THEN /\ pc' = "aborted"
            /\ tasks' = tasks
       ELSE /\ pc' = "download"
            /\ tasks' = [u \in DOMAIN uids |-> Task("inflight", u, None, TRUE, None)]
    /\ UNCHANGED <<aux, uids, last, server, files, puts, known>>

\* download_vcard from the response on: get_vcard_bytes stores the tag, then
\* the payload is decoded and written to the directory.
DownloadResponse ==
    /\ pc = "download"
    /\ \E t \in InFlight : \E resp \in GetResponses(server, tasks[t].uid) :
       \E decodes \in BOOLEAN :
          LET uid == tasks[t].uid
              o == GetOutcome(uids, uid, resp)
              ok == o.result = "ok" /\ decodes
          IN  /\ uids' = o.map
              /\ files' = IF ok THEN WriteFile(files, uid) ELSE files
              /\ tasks' = [tasks EXCEPT ![t].state = IF ok THEN "done" ELSE "failed",
                                        ![t].etag = resp.etag]
              /\ known' = IF o.result = "ok" THEN Remember(known, server, {uid})
                          ELSE known
    /\ UNCHANGED <<aux, last, server, pc, puts>>

\* gather raises the exception of a failed download into main().
DownloadAllRaises ==
    /\ pc = "download"
    /\ Failed # {}
    /\ pc' = "aborted"
    /\ tasks' = Cancelled
    /\ last' = [op |-> "download_all", result |-> "raised", returned |-> {}]
    /\ UNCHANGED <<aux, uids, server, files, puts, known>>

\* (a variant that returns as soon as one download is done)
DownloadAllReturnsEarly ==
    /\ pc = "download"
    /\ Succeeded # {}
    /\ pc' = "checkpoint1"
    /\ last' = [op |-> "download_all", result |-> "ok",
                returned |-> { tasks[t].uid : t \in Succeeded }]
    /\ UNCHANGED <<aux, uids, server, tasks, files, puts, known>>

\* (a variant that goes on to the merge without the prompt of line 44)
DownloadAllReturnsUnprompted ==
    /\ pc = "download"
    /\ Succeeded = DOMAIN tasks
    /\ pc' = "merge"
    /\ last' = [op |-> "download_all", result |-> "ok",
                returned |-> { tasks[t].uid : t \in Succeeded }]
    /\ UNCHANGED <<aux, uids, server, tasks, files, puts, known>>

\* gather returns the vCards; line 209 drops no element, no result being an
\* exception.
DownloadAllReturns ==
    /\ pc = "download"
    /\ Succeeded = DOMAIN tasks
    /\ pc' = "checkpoint1"
    /\ last' = [op |-> "download_all", result |-> "ok",
                returned |-> { tasks[t].uid : t \in Succeeded }]
    /\ UNCHANGED <<aux, uids, server, tasks, files, puts, known>>

\* input("Press Enter to continue.") of line 44
ConfirmBaseline ==
    /\ pc = "checkpoint1"
    /\ pc' = "merge"
    /\ UNCHANGED <<aux, uids, last, server, tasks, files, puts, known>>

\* merge_vcards: the files of the downloaded contacts keep their identity
\* and every parsed row that matches none of them becomes a new file.
MergeVcards ==
    /\ pc = "merge"
    /\ \E new \in SUBSET FreshUIDs :
          files' = [f \in DOMAIN files \cup { FileName(NameOf(u)) : u \in new } |->
                        IF f \in DOMAIN files THEN files[f]
                        ELSE VCard(TRUE, CHOOSE u \in new : FileName(NameOf(u)) = f)]
    /\ pc' = "checkpoint2"
    /\ UNCHANGED <<aux, uids, last, server, tasks, puts, known>>

\* The operator deletes a vCard that should not be uploaded (line 73).
ReviewerDeletes ==
    /\ pc = "checkpoint2"
    /\ \E f \in DOMAIN files : files' = [g \in DOMAIN files \ {f} |-> files[g]]
    /\ UNCHANGED <<aux, uids, last, server, pc, tasks, puts, known>>

\* input("Press Enter to continue.") of line 77
ConfirmMerged ==
    /\ pc = "checkpoint2"
    /\ pc' = "reviewed"
    /\ UNCHANGED <<aux, uids, last, server, tasks, files, puts, known>>

\* upload_all_vcards up to the await of gather: one task per *.vcf file;
\* each runs upload_vcard up to its PUT.
UploadTask(f) ==
    LET req == UploadRequest(uids, files[f], MainCheckOverride)
    IN  Task(IF req.sent THEN "inflight" ELSE "failed", files[f].uid, req.ifMatch,
             files[f].uid \in DOMAIN known, None)

\* (a variant that uploads the downloaded vCards instead of the files found)
StartUploadAllDownloaded ==
    /\ pc = "reviewed"
    /\ tasks' = [u \in DOMAIN uids |->
                    LET req == UploadRequest(uids, VCard(TRUE, u), MainCheckOverride)
                    IN  Task(IF req.sent THEN "inflight" ELSE "failed", u, req.ifMatch,
                             u \in DOMAIN known, None)]
    /\ puts' = puts \cup { [uid |-> tasks'[f].uid, ifMatch |-> tasks'[f].ifMatch] :
                            f \in { g \in DOMAIN tasks' : tasks'[g].state = "inflight" } }
    /\ pc' = "upload"
    /\ UNCHANGED <<aux, uids, last, server, files, known>>

StartUploadAll ==
    /\ pc = "reviewed"
    /\ tasks' = [f \in DOMAIN files |-> UploadTask(f)]
    /\ puts' = puts \cup { [uid |-> tasks'[f].uid, ifMatch |-> tasks'[f].ifMatch] :
                            f \in { g \in DOMAIN files : tasks'[g].state = "inflight" } }
    /\ pc' = "upload"
    /\ UNCHANGED <<aux, uids, last, server, files, known>>

\* The server answers a PUT and upload_vcard goes on from line 240.
UploadResponse ==
    /\ pc = "upload"
    /\ \E t \in InFlight :
       \E resp \in PutResponses(server, tasks[t].uid, tasks[t].ifMatch) :
          LET uid == tasks[t].uid
              o == PutOutcome(uids, uid, resp)
          IN  /\ uids' = o.map
              /\ server' = [server EXCEPT ![uid] = resp.version]
              /\ tasks' = [tasks EXCEPT
                            ![t].state = IF o.result = "ok" THEN "done" ELSE "failed",
                            ![t].overwrote = IF o.result = "ok" /\ server[uid] > 0
                                             THEN ETag(server[uid]) ELSE None,
                            ![t].etag = resp.etag]
              /\ known' = IF o.result = "ok" THEN Remember(known, server', {uid})
                          ELSE known
    /\ UNCHANGED <<aux, last, pc, files, puts>>

\* gather raises the exception of a failed upload into main().
UploadAllRaises ==
    /\ pc = "upload"
    /\ Failed # {}
    /\ pc' = "aborted"
    /\ tasks' = Cancelled
    /\ last' = [op |-> "upload_all", result |-> "raised", returned |-> {}]
    /\ UNCHANGED <<aux, uids, server, files, puts, known>>

\* gather returns; main prints "All Done :)".
UploadAllReturns ==
    /\ pc = "upload"
    /\ Succeeded = DOMAIN tasks
    /\ pc' = "done"
    /\ last' = [op |-> "upload_all", result |-> "ok", returned |-> {}]
    /\ UNCHANGED <<aux, uids, server, tasks, files, puts, known>>

\* Another client of the collection creates or changes a contact while the
\* script runs.
OtherClientWrites ==
    /\ pc \notin {"start", "done", "aborted"}
    /\ \E uid \in UIDs :
          /\ server[uid] < MaxVer
          /\ server' = [server EXCEPT ![uid] = @ + 1]
    /\ UNCHANGED <<aux, uids, last, pc, tasks, files, puts, known>>

Next ==
    \/ Initialize
    \/ StartDownloadAll
    \/ DownloadResponse
    \/ DownloadAllRaises
    \/ DownloadAllReturns
    \/ ConfirmBaseline
    \/ MergeVcards
    \/ ReviewerDeletes
    \/ ConfirmMerged
    \/ StartUploadAll
    \/ UploadResponse
    \/ UploadAllRaises
    \/ UploadAllReturns
    \/ OtherClientWrites

Spec == Init /\ [][Next]_vars

(***************************************************************************)
(* SpecPool: the requests of one batch and the connection pool.            *)
(*                                                                         *)
(* download_all_contacts and upload_all_vcards hand one coroutine per      *)
(* identity to asyncio.gather, which starts them all; nothing in           *)
(* NCAddressBook counts them.  The one bound on the requests in flight is  *)
(* the pool of the httpx.AsyncClient: a request waits for a connection     *)
(* while max_connections of them are in use, and never waits when          *)
(* max_connections is None.                                                *)
(***************************************************************************)
BatchOps == {"download_all", "upload_all"}

\* limits=Limits(max_connections=5) as in main(), or no limits argument:
\* `limits or Limits()`.
LimitsChoices == { Limits(TRUE, MainMaxConnections), NoLimits }

InitPool ==
    /\ InitAux
    /\ names = EmptyMap
    /\ limits \in LimitsChoices
    /\ uids = EmptyMap
    /\ last = NoCall
    /\ server = [u \in {} |-> 0]
    /\ pc = "idle"
    /\ tasks = EmptyMap
    /\ files = EmptyMap
    /\ puts = {}
    /\ known = EmptyMap

\* gather(*(... for uid in self._uids)): one task per identity, each about
\* to send its request.
StartBatch ==
    /\ pc = "idle"
    /\ \E n \in 1..MaxTasks, op \in BatchOps :
          /\ tasks' = [t \in 1..n |-> Task("waiting", t, None, TRUE, None)]
          /\ last' = [op |-> op]
    /\ pc' = "batch"
    /\ UNCHANGED <<aux, uids, server, files, puts, known>>

\* The pool has a connection for the request.
ConnectionFree ==
    ~limits.bounded \/ Cardinality(InFlight) < limits.max_connections

\* self._client.get / self._client.put takes a connection and sends.
SendRequest ==
    /\ pc = "batch"
    /\ ConnectionFree
    /\ \E t \in DOMAIN tasks :
          /\ tasks[t].state = "waiting"
          /\ tasks' = [tasks EXCEPT ![t].state = "inflight"]
    /\ UNCHANGED <<aux, uids, last, server, pc, files, puts, known>>

\* The response arrives; the connection goes back to the pool.
ReceiveResponse ==
    /\ pc = "batch"
    /\ \E t \in InFlight : tasks' = [tasks EXCEPT ![t].state = "done"]
    /\ UNCHANGED <<aux, uids, last, server, pc, files, puts, known>>

\* gather returns.
BatchReturns ==
    /\ pc = "batch"
    /\ Succeeded = DOMAIN tasks
    /\ pc' = "idle"
    /\ tasks' = EmptyMap
    /\ UNCHANGED <<aux, uids, last, server, files, puts, known>>

NextPool == StartBatch \/ SendRequest \/ ReceiveResponse \/ BatchReturns

SpecPool == InitPool /\ [][NextPool]_vars

(***************************************************************************)
(* SpecPhotos: the photo enrichment of the parsed vCards, main() lines     *)
(* 55-63.                                                                  *)
(*                                                                         *)
(* A phone number is the pair of the contact and the type of its tel       *)
(* entry; a photo is named by the platform and the number it was found     *)
(* under.  The Telegram tasks run on the event loop: a task runs without   *)
(* interruption from one await to the next.                                *)
(***************************************************************************)
Contacts == {"c1", "c2", "c3"}

\* _row_to_card adds the mobile number (CELL), then the landline (HOME).
TelChoices == { <<>>, <<"CELL">>, <<"HOME">>, <<"CELL", "HOME">> }

AkaVcard(tel, photo) == [tel |-> tel, photo |-> photo]

Phone(c, type) == <<c, type>>

PhonesOf(vs) ==
    UNION { { Phone(c, vs[c].tel[i]) : i \in 1..Len(vs[c].tel) } : c \in DOMAIN vs }

Photo(platform, phone) == [platform |-> platform, phone |-> phone]

TelegramSemaphore == 5

InitPhotos ==
    /\ vcards \in [Contacts -> { AkaVcard(tel, <<>>) : tel \in TelChoices }]
    /\ photo_map \in { [telegram |-> tg, whatsapp |-> wa] :
                          tg \in SUBSET PhonesOf(vcards),
                          wa \in { {}, { ph \in PhonesOf(vcards) : ph[2] = "CELL" } } }
    /\ merged_table = <<>>
    /\ existing = EmptyMap
    /\ merged = EmptyMap
    /\ names = EmptyMap
    /\ limits = NoLimits
    /\ uids = EmptyMap
    /\ last = NoCall
    /\ server = [u \in {} |-> 0]
    /\ pc = "parsed"
    /\ tasks = EmptyMap
    /\ files = EmptyMap
    /\ puts = {}
    /\ known = EmptyMap

PhotoTask(state, vcard, photo_id) ==
    [state |-> state, vcard |-> vcard, photo_id |-> photo_id]

\* Lines 74-86: one (vcard, photo_id) pair for every tel entry of every
\* vCard whose number is in photo_map.
TelegramTasks ==
    { ph \in PhonesOf(vcards) : ph \in photo_map.telegram }

\* Lines 95-108: gather over the pairs (skipped when there is none).
StartTelegram ==
    /\ pc = "parsed"
    /\ tasks' = [ph \in TelegramTasks |->
                    PhotoTask("waiting", ph[1], Photo("telegram", ph))]
    /\ pc' = "telegram"
    /\ UNCHANGED <<names, limits, vcards, existing, merged, photo_map, merged_table,
                   uids, last, server, files, puts, known>>

\* `if vcard.contents.get("photo")`
HasPhoto(vcard) == Len(vcard.photo) > 0

\* `photo = vcard.add("photo")`: one more PHOTO property.
AddPhoto(vcard, photo) == [vcard EXCEPT !.photo = Append(vcard.photo, photo)]

\* Lines 24-29: the task enters the semaphore, finds a photo and returns, or
\* finds none and awaits download_media.
EnterSemaphore ==
    /\ pc = "telegram"
    /\ Cardinality(InFlight) < TelegramSemaphore
    /\ \E t \in DOMAIN tasks :
          /\ tasks[t].state = "waiting"
          /\ tasks' = [tasks EXCEPT ![t].state =
                          IF HasPhoto(vcards[tasks[t].vcard]) THEN "done"
                          ELSE "inflight"]
    /\ UNCHANGED <<names, limits, vcards, existing, merged, photo_map, merged_table,
                   uids, last, server, pc, files, puts, known>>

\* Lines 29-37: download_media returns, the photo is added, the semaphore
\* is released.
MediaDownloaded ==
    /\ pc = "telegram"
    /\ \E t \in InFlight :
          /\ vcards' = [vcards EXCEPT ![tasks[t].vcard] =
                            AddPhoto(@, tasks[t].photo_id)]
          /\ tasks' = [tasks EXCEPT ![t].state = "done"]
    /\ UNCHANGED <<names, limits, existing, merged, photo_map, merged_table,
                   uids, last, server, pc, files, puts, known>>

\* _whatsapp.py lines 16-26 applied for every matching tel entry of the
\* vCard, in the order of the entries: the first match adds its photo to a
\* vCard without one, every later call returns at line 21.
RECURSIVE WhatsappVcard(_, _, _)
WhatsappVcard(c, vcard, i) ==
    IF i > Len(vcard.tel) THEN vcard
    ELSE LET ph == Phone(c, vcard.tel[i])
             next == IF ph \in photo_map.whatsapp /\ ~HasPhoto(vcard)
                     THEN AddPhoto(vcard, Photo("whatsapp", ph))
                     ELSE vcard
         IN  WhatsappVcard(c, next, i + 1)

\* gather has returned; add_whatsapp_profile_pictures_to_vcards runs
\* synchronously (main() line 63).
AddWhatsappPhotos ==
    /\ pc = "telegram"
    /\ Succeeded = DOMAIN tasks
    /\ vcards' = [c \in DOMAIN vcards |-> WhatsappVcard(c, vcards[c], 1)]
    /\ pc' = "enriched"
    /\ UNCHANGED <<names, limits, existing, merged, photo_map, merged_table,
                   uids, last, server, tasks, files, puts, known>>

NextPhotos == StartTelegram \/ EnterSemaphore \/ MediaDownloaded \/ AddWhatsappPhotos

SpecPhotos == InitPhotos /\ [][NextPhotos]_vars

(***************************************************************************)
(* SpecMerge: merge_vcards applied to an existing set and an incoming      *)
(* batch.                                                                  *)
(*                                                                         *)
(* The module _merge_vcards is not part of the sources; the definitions of *)
(* this section follow the contract of the MergeEngine in the              *)
(* specification: matching by a normalised name key, field fusion, new     *)
(* contacts for unmatched records, no deletion.  A field value "" is an    *)
(* absent field.                                                           *)
(***************************************************************************)
FieldNames == {"tel", "photo"}

Contact(name, fields) == [name |-> name, fields |-> fields]

ExistingNames == {"Jane Doe", "Rick Roe"}

IncomingNames == {"jane  doe", "Rick Roe", "Max Muster"}

\* given + family name, lower-cased, runs of whitespace collapsed
NameKey(name) ==
    CASE name = "Jane Doe"   -> "jane doe"
      [] name = "jane  doe"  -> "jane doe"
      [] name = "Rick Roe"   -> "rick roe"
      [] name = "Max Muster" -> "max muster"

ExistingSets ==
    UNION { [ids -> { Contact(n, fs) : n \in ExistingNames,
                                       fs \in [FieldNames -> {"", "old"}] }] :
            ids \in SUBSET UIDs }

IncomingRecords ==
    { Contact(n, fs) : n \in IncomingNames, fs \in [FieldNames -> {"", "new"}] }

\* The batches of up to MaxIncoming records, no two for the same person.
IncomingBatches ==
    { b \in SeqsUpTo(IncomingRecords, MaxIncoming) :
        \A i, j \in 1..Len(b) : i # j => NameKey(b[i].name) # NameKey(b[j].name) }

InitMerge ==
    /\ existing \in ExistingSets
    /\ vcards \in IncomingBatches
    /\ merged = EmptyMap
    /\ photo_map = EmptyMap
    /\ merged_table = <<>>
    /\ names = EmptyMap
    /\ limits = NoLimits
    /\ uids = EmptyMap
    /\ last = NoCall
    /\ server = [u \in {} |-> 0]
    /\ pc = "enriched"
    /\ tasks = EmptyMap
    /\ files = EmptyMap
    /\ puts = {}
    /\ known = EmptyMap

NoMatch == "NoMatch"

Candidates(set, rec) ==
    { u \in DOMAIN set : NameKey(set[u].name) = NameKey(rec.name) }

\* The one existing contact an incoming record is matched to: the first, in
\* the order of the identities, with the record's name key.
MatchOf(set, rec) ==
    IF Candidates(set, rec) = {} THEN NoMatch
    ELSE LET first == CHOOSE i \in 1..Len(OrderedUIDs) :
                        /\ OrderedUIDs[i] \in Candidates(set, rec)
                        /\ \A j \in 1..(i - 1) : OrderedUIDs[j] \notin Candidates(set, rec)
         IN  OrderedUIDs[first]

\* (a variant that takes every field from the incoming record)
FuseOverwriting(old, rec) == Contact(rec.name, rec.fields)

\* Field fusion: a field present in the incoming record overwrites, an
\* absent one leaves the existing value.
Fuse(old, rec) ==
    Contact(rec.name,
            [f \in FieldNames |->
                IF rec.fields[f] # "" THEN rec.fields[f] ELSE old.fields[f]])

\* The identity generated for the i-th record of the batch.
FreshId(i) == "n" \o ToString(i)

RECURSIVE MergeFrom(_, _, _, _)
MergeFrom(set, result, incoming, i) ==
    IF i > Len(incoming) THEN result
    ELSE LET rec == incoming[i]
             u == MatchOf(set, rec)
             next == IF u = NoMatch
                     THEN [x \in DOMAIN result \cup {FreshId(i)} |->
                              IF x = FreshId(i) THEN rec ELSE result[x]]
                     ELSE [result EXCEPT ![u] = Fuse(@, rec)]
         IN  MergeFrom(set, next, incoming, i + 1)

Matched(set, incoming) ==
    { MatchOf(set, incoming[i]) : i \in 1..Len(incoming) } \ {NoMatch}

\* (a variant that keeps only the contacts the batch touched)
MergeTouched(set, incoming) ==
    LET all == MergeFrom(set, set, incoming, 1)
    IN  [x \in (DOMAIN all \ DOMAIN set) \cup Matched(set, incoming) |-> all[x]]

Merge(set, incoming) == MergeFrom(set, set, incoming, 1)

\* main() lines 66-69
CallMergeVcards ==
    /\ pc = "enriched"
    /\ merged' = Merge(existing, vcards)
    /\ pc' = "merged"
    /\ UNCHANGED <<names, limits, vcards, existing, photo_map, merged_table,
                   uids, last, server, tasks, files, puts, known>>

NextMerge == CallMergeVcards

SpecMerge == InitMerge /\ [][NextMerge]_vars

(***************************************************************************)
(* SpecRows: get_akadressen_vcards turns the rows of the merged table into *)
(* vCards, one call of _row_to_card per row, in the order of the rows; an  *)
(* exception of a call ends the apply.                                     *)
(*                                                                         *)
(* A cell of the table is None (NaN replaced at line 94) or a non-empty    *)
(* string, here the sequence of its characters.                            *)
(***************************************************************************)
Cell(present, text) == [present |-> present, text |-> text]

NoneCell == Cell(FALSE, <<>>)

\* What phone_number leaves in a cell: a number with a leading 0 or +.
PhoneCells ==
    { NoneCell,
      Cell(TRUE, <<"0", "1", "7", "1">>),
      Cell(TRUE, <<"0", "5", "3", "1">>),
      Cell(TRUE, <<"+", "4", "9">>) }

Row(mobile, landline) == [mobile |-> mobile, landline |-> landline]

Rows == { Row(m, l) : m \in PhoneCells, l \in PhoneCells }

\* `mobile.startswith("01")`
StartsWith01(cell) ==
    /\ Len(cell.text) >= 2
    /\ cell.text[1] = "0"
    /\ cell.text[2] = "1"

Tel(value, type) == [value |-> value, type |-> type]

\* Lines 179-184: the CELL entry, then the HOME entry, for the numbers left.
TelEntries(mobile, landline) ==
    (IF mobile.present THEN <<Tel(mobile.text, "CELL")>> ELSE <<>>)
        \o (IF landline.present THEN <<Tel(landline.text, "HOME")>> ELSE <<>>)

\* Lines 169-187.  `mobile == landline` is also true of None and None, and
\* None has no startswith.
RowToCard(row) ==
    IF row.mobile = row.landline
    THEN IF ~row.mobile.present
         THEN [result |-> "AttributeError", card |-> AkaVcard(<<>>, <<>>)]
         ELSE IF StartsWith01(row.mobile)
              THEN [result |-> "ok",
                    card |-> AkaVcard(TelEntries(row.mobile, NoneCell), <<>>)]
              ELSE [result |-> "ok",
                    card |-> AkaVcard(TelEntries(NoneCell, row.landline), <<>>)]
    ELSE [result |-> "ok", card |-> AkaVcard(TelEntries(row.mobile, row.landline), <<>>)]

InitRows ==
    /\ merged_table \in SeqsUpTo(Rows, MaxRows)
    /\ vcards = <<>>
    /\ existing = EmptyMap
    /\ merged = EmptyMap
    /\ photo_map = EmptyMap
    /\ names = EmptyMap
    /\ limits = NoLimits
    /\ uids = EmptyMap
    /\ last = NoCall
    /\ server = [u \in {} |-> 0]
    /\ pc = "apply"
    /\ tasks = EmptyMap
    /\ files = EmptyMap
    /\ puts = {}
    /\ known = EmptyMap

\* merged_table.apply(_row_to_card, axis=1): the next row yields its card.
RowYieldsCard ==
    /\ pc = "apply"
    /\ Len(vcards) < Len(merged_table)
    /\ LET o == RowToCard(merged_table[Len(vcards) + 1])
       IN  /\ o.result = "ok"
           /\ vcards' = Append(vcards, o.card)
    /\ UNCHANGED <<names, limits, existing, merged, photo_map, merged_table,
                   uids, last, server, pc, tasks, files, puts, known>>

\* The call for the next row raises, and so does get_akadressen_vcards.
RowRaises ==
    /\ pc = "apply"
    /\ Len(vcards) < Len(merged_table)
    /\ LET o == RowToCard(merged_table[Len(vcards) + 1])
       IN  /\ o.result # "ok"
           /\ last' = [op |-> "get_akadressen_vcards", result |-> o.result,
                       row |-> Len(vcards) + 1]
    /\ pc' = "raised"
    /\ UNCHANGED <<names, limits, vcards, existing, merged, photo_map, merged_table,
                   uids, server, tasks, files, puts, known>>

\* `.to_list()`: get_akadressen_vcards returns the cards.
ApplyReturns ==
    /\ pc = "apply"
    /\ Len(vcards) = Len(merged_table)
    /\ pc' = "parsed"
    /\ UNCHANGED <<names, limits, vcards, existing, merged, photo_map, merged_table,
                   uids, last, server, tasks, files, puts, known>>

NextRows == RowYieldsCard \/ RowRaises \/ ApplyReturns

SpecRows == InitRows /\ [][NextRows]_vars

(***************************************************************************)
(* Claims about the batch operations and main() (checked under Spec).      *)
(***************************************************************************)
EveryTaskRanToCompletion ==
    \A t \in DOMAIN tasks : tasks[t].state \in {"done", "failed"}

\* C2: download_all_contacts does not raise because the fetch or decode of
\* one identity failed: it returns the contacts of the identities that
\* succeeded, and every sibling fetch has run to completion.
C2_FetchAllSurvivesMemberFailure ==
    (last.op = "download_all" /\ pc # "upload")
    => /\ last.result = "ok"
       /\ last.returned = { tasks[t].uid : t \in Succeeded }
       /\ EveryTaskRanToCompletion

\* C3: upload_all_vcards does not fail wholesale when the write of one
\* contact fails: the sibling writes run to completion and main() is not
\* aborted.
C3_WriteAllSurvivesMemberFailure ==
    last.op = "upload_all"
    => /\ last.result = "ok"
       /\ pc # "aborted"
       /\ EveryTaskRanToCompletion

UploadPhase == pc \in {"upload", "done"} \/ (pc = "aborted" /\ last.op = "upload_all")

\* C6: in the upload phase of main() a contact whose identity was listed or
\* downloaded in this run is written with a version tag as precondition, a
\* contact with a fresh identity without one, and a write of a known contact
\* replaces no remote state but the one whose tag it sent.
C6_KnownContactsWrittenConditionally ==
    UploadPhase =>
        \A t \in DOMAIN tasks :
            /\ tasks[t].seen => (tasks[t].ifMatch # None /\ tasks[t].ifMatch # "")
            /\ ~tasks[t].seen => tasks[t].ifMatch = None
            /\ (tasks[t].seen /\ tasks[t].state = "done")
                    => tasks[t].overwrote = tasks[t].ifMatch

\* C11: the merge starts only when no fetch of the download phase is in
\* flight (each has completed; a failed one has aborted the run), and no PUT
\* is issued before the merge has completed.
C11_MergeAfterFetchesUploadAfterMerge ==
    /\ pc \in {"checkpoint1", "merge", "checkpoint2", "reviewed"}
            => (InFlight = {} /\ Failed = {} /\ Succeeded = DOMAIN tasks)
    /\ pc \in {"start", "listed", "download", "checkpoint1", "merge"}
            => \A f \in DOMAIN files : files[f].uid \notin FreshUIDs
    /\ puts # {} => pc \in {"upload", "done", "aborted"}
    /\ pc \in {"start", "listed", "download", "checkpoint1", "merge", "checkpoint2",
               "reviewed"} => puts = {}

\* C11 witness: PUTs are out for a directory that holds a merged-in contact.
C11_Witness ==
    /\ pc = "upload"
    /\ puts # {}
    /\ \E f \in DOMAIN files : files[f].uid \in FreshUIDs
    /\ \E f \in DOMAIN files : files[f].uid \in UIDs

NoEngineWrite ==
    /\ \A f \in DOMAIN files' : f \in DOMAIN files /\ files'[f] = files[f]
    /\ puts' = puts

CheckpointStep ==
    /\ (pc' = "merge" /\ pc # "merge") => pc = "checkpoint1"
    /\ (pc' = "checkpoint2" /\ pc # "checkpoint2") => pc = "merge"
    /\ (pc' = "reviewed" /\ pc # "reviewed") => pc = "checkpoint2"
    /\ (pc' = "upload" /\ pc # "upload") => pc = "reviewed"
    /\ pc \in {"checkpoint1", "checkpoint2"} => NoEngineWrite

\* C12: the merge is reached only through the confirmation of the first
\* checkpoint and the upload only through the confirmation of the second, and
\* while a checkpoint is pending no file is created or rewritten and no PUT
\* is issued.
C12_CheckpointsNotSkipped ==
    [][CheckpointStep]_vars

\* C12 witness: the second checkpoint is pending with downloaded and merged
\* contacts in the directory.
C12_Witness ==
    /\ pc = "checkpoint2"
    /\ \E f \in DOMAIN files : files[f].uid \in FreshUIDs
    /\ \E f \in DOMAIN files : files[f].uid \in UIDs

UploadStarted == pc \in {"upload", "done"} \/ (pc = "aborted" /\ puts # {})

NothingDeletedByTheEngine ==
    /\ \A u \in DOMAIN server : server[u] > 0 => server'[u] > 0
    /\ (\E f \in DOMAIN files : f \notin DOMAIN files')
            => (pc = "checkpoint2" /\ pc' = "checkpoint2")

OwnResponseOnly ==
    pc \in {"download", "upload"} =>
        /\ DOMAIN uids \subseteq DOMAIN uids'
        /\ \A u \in DOMAIN uids' :
              (u \notin DOMAIN uids \/ uids'[u] # uids[u])
              => \E t \in DOMAIN tasks :
                    /\ tasks[t].uid = u
                    /\ tasks[t].state = "inflight"
                    /\ tasks'[t].state # "inflight"
                    /\ uids'[u] = tasks'[t].etag

\* C18: while the fetches or the writes of a batch complete in any order, an
\* entry of the map changes only when the response of that identity's own
\* request arrives, and then to the tag of that response; after all of them
\* succeeded every identity holds the tag its own response carried.
C18_NoLostOrCrossedUpdate ==
    /\ []( /\ pc = "checkpoint1" =>
                \A t \in DOMAIN tasks : uids[tasks[t].uid] = tasks[t].etag
           /\ pc = "done" =>
                \A t \in DOMAIN tasks :
                    tasks[t].etag # None => uids[tasks[t].uid] = tasks[t].etag )
    /\ [][OwnResponseOnly]_vars

\* C18 witness: two fetches have succeeded with different tags.
C18_Witness ==
    /\ pc = "checkpoint1"
    /\ \E t1, t2 \in DOMAIN tasks :
          /\ tasks[t1].etag # tasks[t2].etag
          /\ tasks[t1].etag # None /\ tasks[t2].etag # None

Downloaded == { tasks[t].uid : t \in DOMAIN tasks }

Namesakes(u) == { v \in Downloaded : FileName(names[v]) = FileName(names[u]) }

\* C19 as stated: after download_all_contacts has succeeded the directory
\* holds for every downloaded identity a file with the bytes of that
\* identity, also when two contacts have the same names.
C19_EveryDownloadKeepsItsFile ==
    pc = "checkpoint1" =>
        \A u \in Downloaded :
            /\ FileName(names[u]) \in DOMAIN files
            /\ files[FileName(names[u])] = VCard(TRUE, u)

\* C19 amended: after download_all_contacts has succeeded the directory holds
\* exactly one file per name of a downloaded contact; the file holds the
\* bytes of that contact when no other downloaded contact has the same
\* names, and the bytes of one of the namesakes otherwise.
C19_NamesakesShareOneFile ==
    pc = "checkpoint1" =>
        /\ DOMAIN files = { FileName(names[u]) : u \in Downloaded }
        /\ \A u \in Downloaded :
              /\ files[FileName(names[u])].hasUid
              /\ files[FileName(names[u])].uid \in Namesakes(u)

\* C19 witness: two namesakes were downloaded into one file.
C19_Witness ==
    /\ pc = "checkpoint1"
    /\ \E u, v \in Downloaded : u # v /\ v \in Namesakes(u)
    /\ Cardinality(DOMAIN files) = 1

(***************************************************************************)
(* Claims about upload_vcard and get_vcard_bytes (checked under            *)
(* SpecClient).                                                            *)
(***************************************************************************)
UploadDone == last.op = "upload"

\* The tag the map held for the contact of the last upload_vcard call.
PriorTag ==
    IF last.vcard.uid \in DOMAIN last.prev THEN last.prev[last.vcard.uid] ELSE None

NoUsableTag == PriorTag = None \/ PriorTag = ""

\* C1: upload_vcard with check_override=True for a contact whose identity has
\* no known, non-empty tag fails with an error, sends no PUT and leaves the
\* map as it was.
C1_ConditionalWriteWithoutTagFails ==
    (UploadDone /\ last.check_override /\ last.vcard.hasUid /\ NoUsableTag)
    => /\ last.result = "RuntimeError"
       /\ ~last.sent
       /\ last.status = 0
       /\ uids = last.prev

\* C1 witness: such a call happened for an identity whose stored tag is None.
C1_Witness ==
    /\ UploadDone /\ last.check_override /\ last.vcard.hasUid
    /\ last.vcard.uid \in DOMAIN last.prev
    /\ PriorTag = None
    /\ last.result = "RuntimeError"

\* C4: a tag stored for an identity is the tag the server gave to the state
\* of that identity that the client last fetched or wrote successfully; after
\* a successful write it is the tag of the written state.
C4_StoredTagIsLastRemoteState ==
    \A u \in DOMAIN uids :
        (uids[u] # None /\ uids[u] # "") => (u \in DOMAIN known /\ uids[u] = known[u])

C10_RejectedPreconditionIsConflict ==
    (UploadDone /\ last.sent /\ last.status = 412)
    => (last.result # "ok" /\ last.result # "HTTPError")

(***************************************************************************)
(* Claims about refresh_contacts (checked under SpecListing).              *)
(***************************************************************************)
RefreshDone == last.op = "refresh"

Entries(resp) == { resp.entries[i] : i \in 1..Len(resp.entries) }

\* An entry the listing offers as a contact: accepted content type, and an
\* identifier whose last path segment names a resource.
IsContactEntry(e) ==
    /\ e.hasHref
    /\ e.href # NoText
    /\ UidOfHref(e.href) # ""
    /\ e.ctype \in AcceptedContentTypes

\* The tag carried by the last entry of the listing naming identity u.
ListedTag(resp, u) ==
    LET idx == { i \in 1..Len(resp.entries) :
                    /\ IsContactEntry(resp.entries[i])
                    /\ UidOfHref(resp.entries[i].href) = u }
        top == CHOOSE i \in idx : \A j \in idx : j <= i
    IN  resp.entries[top].etag

ListedIds(resp) == { UidOfHref(e.href) : e \in { x \in Entries(resp) : IsContactEntry(x) } }

\* C7: a 2xx, well-formed listing of N contact entries (accepted content type,
\* identifier present, pairwise distinct identities) and M rejected entries
\* (other content type, or no href) makes refresh_contacts(clear=True) return
\* exactly the N identities and store each entry's own tag, for every N >= 0
\* and M >= 0.
C7_ListingReturnsExactlyAccepted ==
    ( /\ RefreshDone
      /\ last.clear
      /\ last.resp.status >= 200 /\ last.resp.status <= 299
      /\ last.resp.wellFormed
      /\ \A e \in Entries(last.resp) :
            \/ IsContactEntry(e)
            \/ ~e.hasHref
            \/ (e.href # NoText /\ UidOfHref(e.href) # ""
                    /\ e.ctype \notin AcceptedContentTypes)
      /\ \A i, j \in 1..Len(last.resp.entries) :
            ( /\ i # j
              /\ IsContactEntry(last.resp.entries[i])
              /\ IsContactEntry(last.resp.entries[j]) )
            => UidOfHref(last.resp.entries[i].href) # UidOfHref(last.resp.entries[j].href) )
    => /\ last.result = "ok"
       /\ last.returned = ListedIds(last.resp)
       /\ DOMAIN uids = ListedIds(last.resp)
       /\ \A u \in ListedIds(last.resp) : uids[u] = ListedTag(last.resp, u)

\* C8: after a successful refresh_contacts, with clear=True the map holds
\* exactly the identities accepted from this listing; with clear=False every
\* earlier identity that the listing does not name is still there with its
\* tag, and the listed identities are there with the tag of the listing.
C8_ClearReplacesElseMerges ==
    (RefreshDone /\ last.result = "ok")
    => LET listed == ListedIds(last.resp)
       IN  /\ last.clear => DOMAIN uids = listed
           /\ ~last.clear =>
                /\ DOMAIN uids = DOMAIN last.prev \cup listed
                /\ \A u \in DOMAIN last.prev \ listed : uids[u] = last.prev[u]
           /\ \A u \in listed : u \in DOMAIN uids /\ uids[u] = ListedTag(last.resp, u)

\* C8 witness: a merging refresh kept an unlisted identity and replaced the
\* tag of a listed one.
C8_Witness ==
    /\ RefreshDone /\ last.result = "ok" /\ ~last.clear
    /\ \E u \in DOMAIN last.prev : u \notin ListedIds(last.resp)
    /\ \E u \in DOMAIN last.prev \cap ListedIds(last.resp) : uids[u] # last.prev[u]

\* C20 as stated: a refresh_contacts call that fails, for whatever reason
\* and with either value of clear, leaves the map as it was before the call.
C20_FailedRefreshLeavesMapUnchanged ==
    (RefreshDone /\ last.result # "ok") => uids = last.prev

LacksIdentifier(e) == ~e.hasHref \/ e.href = NoText

\* C9 as stated: refresh_contacts fails when the status is not 2xx, when the
\* body is not well-formed, and when some entry lacks a resource identifier
\* (no href, or an href without text).
C9_FailsOnAnyMissingIdentifier ==
    ( /\ RefreshDone
      /\ \/ last.resp.status < 200 \/ last.resp.status > 299
         \/ ~last.resp.wellFormed
         \/ \E e \in Entries(last.resp) : LacksIdentifier(e) )
    => last.result # "ok"

\* C9 amended: refresh_contacts fails with HTTPError when the status is not
\* 2xx, else with a parse error when the body is not well-formed, else with
\* RuntimeError when some entry has an href without text; an entry with no
\* href element is skipped and does not make the call fail.
C9_FailsOnStatusMarkupOrEmptyHref ==
    RefreshDone =>
        LET badStatus == last.resp.status < 200 \/ last.resp.status > 299
            emptyHref == \E e \in Entries(last.resp) : e.hasHref /\ e.href = NoText
        IN  /\ badStatus => last.result = "HTTPError"
            /\ (~badStatus /\ ~last.resp.wellFormed) => last.result = "ParseError"
            /\ (~badStatus /\ last.resp.wellFormed /\ emptyHref)
                    => last.result = "RuntimeError"
            /\ last.result # "ok" => last.returned = {}
            /\ ( /\ ~badStatus /\ last.resp.wellFormed /\ ~emptyHref
                 /\ ListedIds(last.resp) # {} )
                    => last.result = "ok"

\* C9 witness: a 2xx, well-formed listing with a contact entry followed by an
\* entry whose href has no text made the call raise.
C9_Witness ==
    /\ RefreshDone
    /\ last.resp.status = 207 /\ last.resp.wellFormed
    /\ Len(last.resp.entries) >= 2
    /\ IsContactEntry(last.resp.entries[1])
    /\ last.resp.entries[2].hasHref /\ last.resp.entries[2].href = NoText
    /\ last.result = "RuntimeError"

(***************************************************************************)
(* Claims about failed writes (checked under SpecClient).                  *)
(***************************************************************************)
UploadFailed == last.op = "upload" /\ last.result # "ok"

\* C21: an upload_vcard call that fails (no UID, no tag under
\* check_override, or a non-2xx response) leaves the map as it was, so the
\* same call made again is refused or sent with the same If-Match header as
\* the failed one.
C21_FailedUploadLeavesMapUnchanged ==
    UploadFailed =>
        /\ uids = last.prev
        /\ LET retry == UploadRequest(uids, last.vcard, last.check_override)
           IN  /\ retry.sent = last.sent
               /\ retry.ifMatch = last.ifMatch

\* C21 witness: a PUT with a stored tag as precondition was rejected.
C21_Witness ==
    /\ UploadFailed
    /\ last.sent
    /\ last.status = 412
    /\ Truthy(last.ifMatch)

(***************************************************************************)
(* Claims about the requests in flight (checked under SpecPool).           *)
(***************************************************************************)
\* C13 as stated: however many identities a batch has, and whether or not
\* the client was constructed with a limits argument, at most 5 requests are
\* in flight at a time.
C13_InFlightWithinLimit == Cardinality(InFlight) <= MainMaxConnections

(***************************************************************************)
(* Claims about the photo enrichment (checked under SpecPhotos).           *)
(***************************************************************************)
\* C14 as stated: after the Telegram and the WhatsApp enrichment every
\* contact has at most one photo, also when several of its numbers have a
\* Telegram photo and the download tasks interleave.
C14_AtMostOnePhoto ==
    pc = "enriched" => \A c \in DOMAIN vcards : Len(vcards[c].photo) <= 1

(***************************************************************************)
(* Claims about the merge (checked under SpecMerge).                       *)
(***************************************************************************)
MatchedPairs ==
    { <<MatchOf(existing, vcards[i]), i>> : i \in 1..Len(vcards) }
        \ { <<NoMatch, i>> : i \in 1..Len(vcards) }

\* C16: for every existing contact and the incoming record matched to it, a
\* field that is non-empty on the existing contact and absent from the
\* record keeps its value on the merged contact, and a field that is
\* non-empty in the record has the record's value.
C16_MergeNeverErases ==
    pc = "merged" =>
        \A p \in MatchedPairs : \A f \in FieldNames :
            /\ (existing[p[1]].fields[f] # "" /\ vcards[p[2]].fields[f] = "")
                    => merged[p[1]].fields[f] = existing[p[1]].fields[f]
            /\ vcards[p[2]].fields[f] # ""
                    => merged[p[1]].fields[f] = vcards[p[2]].fields[f]

\* C16 witness: a contact with a photo and a phone number was merged with a
\* record that has a new phone number and no photo.
C16_Witness ==
    /\ pc = "merged"
    /\ \E p \in MatchedPairs :
          /\ existing[p[1]].fields["photo"] # ""
          /\ existing[p[1]].fields["tel"] # ""
          /\ vcards[p[2]].fields["photo"] = ""
          /\ vcards[p[2]].fields["tel"] # ""

\* C17: every identity of the existing set is an identity of the merged
\* set, and an existing contact no incoming record was matched to is in the
\* merged set unchanged.
C17_MergeNeverDeletes ==
    pc = "merged" =>
        /\ DOMAIN existing \subseteq DOMAIN merged
        /\ \A u \in DOMAIN existing \ Matched(existing, vcards) :
              merged[u] = existing[u]

\* C17 witness: the merge updated one contact, added one and left one
\* without a matching record.
C17_Witness ==
    /\ pc = "merged"
    /\ Matched(existing, vcards) # {}
    /\ DOMAIN existing \ Matched(existing, vcards) # {}
    /\ DOMAIN merged \ DOMAIN existing # {}

(***************************************************************************)
(* Claims about _row_to_card (checked under SpecRows).                     *)
(***************************************************************************)
DistinctPhones(card) ==
    \A i, j \in 1..Len(card.tel) : i # j => card.tel[i].value # card.tel[j].value

\* C22 as stated: every row of the table yields a vCard, whatever numbers
\* are present or absent, and no card has two phone entries with the same
\* value.
C22_EveryRowYieldsCardWithDistinctPhones ==
    /\ pc # "raised"
    /\ pc = "parsed" => Len(vcards) = Len(merged_table)
    /\ \A i \in 1..Len(vcards) : DistinctPhones(vcards[i])

====
